---- MODULE Spec2Model ----
(***************************************************************************)
(* SlideSage-AI: slide extraction (ppt_data_preprocessing.py), prompt      *)
(* building / chunking and the two summarization entry points              *)
(* (ppt_summarization_bedrock.py = Variant A, ppt_summarization_openai.py  *)
(* = Variant B).                                                           *)
(*                                                                         *)
(* A Python str is a sequence of one-character strings; a Python list is a *)
(* sequence; a dict is a record (a missing key is a missing field).  The   *)
(* outcome of a call is a record [kind, val]: kind "None", "str", "list"   *)
(* for a returned value, kind "raise" for an exception leaving the call.   *)
(***************************************************************************)
EXTENDS Integers, Sequences, FiniteSets, TLC

VARIABLES pc, op, arg, ret, calls, file_to_get_summarization, slide_data, prompt

vars == <<pc, op, arg, ret, calls, file_to_get_summarization, slide_data, prompt>>

----------------------------------------------------------------------------
(* Bounds of the explored inputs *)

MaxSlides == 2
MaxShapes == 2
MaxRows == 2
MaxCols == 1
MaxEntries == 3
MaxDeckSlides == 1

----------------------------------------------------------------------------
(* Python values and str helpers *)

None == [kind |-> "None", val |-> <<>>]
Str(s) == [kind |-> "str", val |-> s]
List(l) == [kind |-> "list", val |-> l]
Raise(e) == [kind |-> "raise", val |-> e]

Whitespace == {" ", "\t", "\n", "\r", "\f"}

RECURSIVE LStrip(_)
LStrip(s) ==
    IF s # <<>> /\ Head(s) \in Whitespace THEN LStrip(Tail(s)) ELSE s

RECURSIVE RStrip(_)
RStrip(s) ==
    IF s # <<>> /\ s[Len(s)] \in Whitespace
    THEN RStrip(SubSeq(s, 1, Len(s) - 1)) ELSE s

Strip(s) == RStrip(LStrip(s))

\* sep.join(items)
RECURSIVE Join(_, _)
Join(sep, items) ==
    IF items = <<>> THEN <<>>
    ELSE IF Len(items) = 1 THEN items[1]
    ELSE items[1] \o sep \o Join(sep, Tail(items))

\* "".join(items)
RECURSIVE Concat(_)
Concat(items) ==
    IF items = <<>> THEN <<>> ELSE Head(items) \o Concat(Tail(items))

Digit(d) == <<"0", "1", "2", "3", "4", "5", "6", "7", "8", "9">>[d + 1]

\* str(n) for n >= 0
RECURSIVE Decimal(_)
Decimal(n) ==
    IF n < 10 THEN <<Digit(n)>> ELSE Decimal(n \div 10) \o <<Digit(n % 10)>>

\* s.endswith(suffix)
EndsWith(s, suffix) ==
    /\ Len(s) >= Len(suffix)
    /\ SubSeq(s, Len(s) - Len(suffix) + 1, Len(s)) = suffix

\* the sequences over S of length 0..n
SeqUpTo(S, n) == UNION {[1..k -> S] : k \in 0..n}

Max(S) == CHOOSE m \in S : \A k \in S : k <= m

----------------------------------------------------------------------------
(* The presentation as python-pptx exposes it: slides -> shapes.  A shape  *)
(* has a text frame, or is a graphic frame holding a table, or is neither  *)
(* (a picture); has_text_frame and has_table never hold together.  The     *)
(* rows of a table all have one cell per grid column.  A table whose XML   *)
(* cannot be read makes the library raise when its rows are walked.        *)

TextPool == {<<" ">>, <<" ", "Q", "3">>}

RowLetter(i) == <<"h", "r", "s", "t", "u">>[i]
ColLetter(j) == <<"a", "b", "c", "d">>[j]

\* cell text of row i, column j: distinct per position, with a leading blank
CellText(i, j) == <<" ", RowLetter(i), ColLetter(j)>>

TableRows(nr, nc) == [i \in 1..nr |-> [j \in 1..nc |-> CellText(i, j)]]

TextShape(t) == [kind |-> "text", text |-> t]
TableShape(rows) == [kind |-> "table", readable |-> TRUE, rows |-> rows]
BrokenTable == [kind |-> "table", readable |-> FALSE, rows |-> <<>>]
Picture == [kind |-> "picture"]

Shapes ==
    {TextShape(t) : t \in TextPool}
    \cup {TableShape(TableRows(nr, nc)) : nr \in 0..MaxRows, nc \in 1..MaxCols}
    \cup {BrokenTable, Picture}

Slides == SeqUpTo(Shapes, MaxShapes)

Presentations == SeqUpTo(Slides, MaxSlides)

has_text_frame(shape) == shape.kind = "text"
has_table(shape) == shape.kind = "table"

\* walking table.rows / row.cells / cell.text raises on an unreadable table
WalkRaises(shape) == has_table(shape) /\ ~shape.readable

----------------------------------------------------------------------------
(* PPTDataPreprocessing *)

\* the header row kept among the data rows
DataFrame_keepsHeader(data) == [columns |-> data[1], rows |-> data]

\* pd.DataFrame(data[1:], columns=data[0])
DataFrame(data) == [columns |-> data[1], rows |-> Tail(data)]

\* the loop body of extract_tables_from_slide for one shape
TablesOfShape(shape) ==
    IF has_table(shape)
    THEN LET data == shape.rows
         IN  IF data # <<>> THEN <<DataFrame(data)>> ELSE <<>>
    ELSE <<>>

RECURSIVE TablesLoop(_, _)
TablesLoop(shapes, tables) ==
    IF shapes = <<>> THEN tables
    ELSE TablesLoop(Tail(shapes), tables \o TablesOfShape(Head(shapes)))

extract_tables_from_slide(slide) ==
    IF \E i \in 1..Len(slide) : WalkRaises(slide[i])
    THEN Raise("Exception")
    ELSE List(TablesLoop(slide, <<>>))

\* DataFrame.to_string(index=False): one line for the header and one per
\* row, every cell right-justified to the width of its column; a frame
\* without rows renders as pandas' "Empty DataFrame" notice
RECURSIVE Pad(_, _)
Pad(s, width) == IF Len(s) >= width THEN s ELSE Pad(<<" ">> \o s, width)

EmptyFrameText == <<"E", "m", "p", "t", "y", " ", "D", "a", "t", "a", "F", "r", "a", "m", "e", "\n">>
ColumnsText == <<"C", "o", "l", "u", "m", "n", "s", ":", " ", "[">>
IndexText == <<"]", "\n", "I", "n", "d", "e", "x", ":", " ", "[", "]">>

to_string(df) ==
    IF df.rows = <<>>
    THEN EmptyFrameText \o ColumnsText \o Join(<<",", " ">>, df.columns)
         \o IndexText
    ELSE LET lines == <<df.columns>> \o df.rows
             width(j) == Max({Len(lines[i][j]) : i \in 1..Len(lines)})
             render(line) ==
                 Join(<<" ">>, [j \in 1..Len(line) |-> Pad(line[j], width(j))])
         IN  Join(<<"\n">>, [i \in 1..Len(lines) |-> render(lines[i])])

\* the text-frame loop of extract_content_from_ppt
RECURSIVE TextLoop(_, _)
TextLoop(shapes, acc) ==
    IF shapes = <<>> THEN acc
    ELSE TextLoop(Tail(shapes),
                  IF has_text_frame(Head(shapes))
                  THEN Append(acc, Strip(Head(shapes).text)) ELSE acc)

\* slide_content of one slide: stripped texts, then the rendered tables
SlideContent(slide) ==
    LET slide_tables == extract_tables_from_slide(slide).val
    IN  TextLoop(slide, <<>>)
        \o [k \in 1..Len(slide_tables) |-> to_string(slide_tables[k])]

SlidePrefix == <<"S", "l", "i", "d", "e", " ">>

\* blocks numbered from 0
SlideBlock_zeroBased(idx, slide_content) ==
    SlidePrefix \o Decimal(idx) \o <<":", "\n">>
    \o Join(<<"\n">>, slide_content)

\* f"Slide {idx + 1}:\n" + "\n".join(slide_content); idx is 0-based
SlideBlock(idx, slide_content) ==
    SlidePrefix \o Decimal(idx + 1) \o <<":", "\n">>
    \o Join(<<"\n">>, slide_content)

\* the enumerate loop: idx counts every slide, emitted or skipped
RECURSIVE ContentLoop(_, _, _)
ContentLoop(slides, idx, overall_content) ==
    IF idx >= Len(slides) THEN overall_content
    ELSE LET slide_content == SlideContent(slides[idx + 1])
         IN  ContentLoop(slides, idx + 1,
                 IF slide_content # <<>>
                 THEN Append(overall_content, SlideBlock(idx, slide_content))
                 ELSE overall_content)

extract_content_from_ppt(presentation) ==
    IF \E k \in 1..Len(presentation) :
           extract_tables_from_slide(presentation[k]).kind = "raise"
    THEN Raise("Exception")
    ELSE Str(Join(<<"\n", "\n">>, ContentLoop(presentation, 0, <<>>)))

UntitledSlide == <<"U", "n", "t", "i", "t", "l", "e", "d", " ", "S", "l", "i", "d", "e">>

\* the shape loop of preprocess_ppt: acc = [slide_text, slide_tables]
RECURSIVE ShapeLoop(_, _)
ShapeLoop(shapes, acc) ==
    IF shapes = <<>> THEN acc
    ELSE LET shape == Head(shapes)
         IN  ShapeLoop(Tail(shapes),
                 IF has_text_frame(shape)
                 THEN [acc EXCEPT !.slide_text = Append(@, Strip(shape.text))]
                 ELSE IF has_table(shape)
                 THEN [acc EXCEPT !.slide_tables = Append(@,
                          [i \in 1..Len(shape.rows) |->
                              [j \in 1..Len(shape.rows[i]) |->
                                  Strip(shape.rows[i][j])]])]
                 ELSE acc)

\* the title repeated in the content
SlideRecord_titleInContent(slide_text, slide_tables) ==
    [title |-> IF slide_text # <<>> THEN slide_text[1] ELSE UntitledSlide,
     content |-> IF Len(slide_text) > 1 THEN Join(<<" ">>, slide_text)
                 ELSE <<>>,
     tables |-> slide_tables]

\* the record appended for a slide with text or tables
SlideRecord(slide_text, slide_tables) ==
    [title |-> IF slide_text # <<>> THEN slide_text[1] ELSE UntitledSlide,
     content |-> IF Len(slide_text) > 1 THEN Join(<<" ">>, Tail(slide_text))
                 ELSE <<>>,
     tables |-> slide_tables]

RECURSIVE SlideLoop(_, _)
SlideLoop(slides, data) ==
    IF slides = <<>> THEN data
    ELSE LET acc == ShapeLoop(Head(slides),
                        [slide_text |-> <<>>, slide_tables |-> <<>>])
         IN  SlideLoop(Tail(slides),
                 IF acc.slide_text # <<>> \/ acc.slide_tables # <<>>
                 THEN Append(data, SlideRecord(acc.slide_text, acc.slide_tables))
                 ELSE data)

\* any failure during the walk is caught: the result is [] and not partial
preprocess_ppt(presentation) ==
    IF \E k \in 1..Len(presentation) :
           \E i \in 1..Len(presentation[k]) : WalkRaises(presentation[k][i])
    THEN List(<<>>)
    ELSE List(SlideLoop(presentation, <<>>))

----------------------------------------------------------------------------
(* Prompt building: records as dicts.  TextKeyed records carry the keys    *)
(* the Variant A builders read ('text', optional 'tables'); TitleKeyed     *)
(* records are what preprocess_ppt produces ('title', 'content',           *)
(* 'tables').  A table is a list of rows, a row a list of str.             *)

Has(entry, key) == key \in DOMAIN entry

Text15 ==
    <<"Q", "u", "a", "r", "t", "e", "r", "l", "y", " ", "r", "e", "c", "a",
      "p">>
Text25 ==
    <<"D", "e", "l", "i", "v", "e", "r", "a", "b", "i", "l", "i", "t", "y",
      " ", "b", "y", " ", "r", "e", "g", "i", "o", "n", ".">>

SampleTable == [i \in 1..2 |-> [j \in 1..1 |-> Strip(CellText(i, j))]]
ZeroRowTable == <<>>

TextKeyed ==
    {[text |-> t] : t \in {<<>>, Text15, Text25}}
    \cup {[text |-> t, tables |-> <<SampleTable>>] :
             t \in {<<>>, Text15, Text25}}
    \cup {[text |-> <<>>, tables |-> <<ZeroRowTable>>]}

TitleKeyed ==
    {SlideRecord(t, tb) : t \in {<<<<"Q", "3">>>>, <<<<"Q", "3">>, <<"i", "n">>>>},
                          tb \in {<<>>, <<SampleTable>>}}
    \cup {SlideRecord(<<>>, <<ZeroRowTable>>)}
    \cup {[title |-> <<"Q", "3">>]}

TextInputs == SeqUpTo(TextKeyed \cup {SlideRecord(<<<<"Q", "3">>>>, <<>>)},
                      MaxEntries)

TitleInputs == SeqUpTo(TitleKeyed \cup {[text |-> Text15]}, MaxEntries)

MaxCharsSet == {0, 14, 15, 30, 50, 70, 3000}

SlideTitleText ==
    <<"S", "l", "i", "d", "e", " ", "T", "i", "t", "l", "e", ":", " ">>
CommaSpace == <<",", " ">>

\* the lines ", ".join(row) + "\n" of every row of every table
RECURSIVE RowLines(_)
RowLines(rows) ==
    IF rows = <<>> THEN <<>>
    ELSE Join(CommaSpace, Head(rows)) \o <<"\n">> \o RowLines(Tail(rows))

\* entry_text of split_prompt; entry.get('tables', []) defaults to no table
EntryText(entry) ==
    LET tables == IF Has(entry, "tables") THEN entry.tables ELSE <<>>
    IN  SlideTitleText \o entry.text \o <<"\n">>
        \o Concat([k \in 1..Len(tables) |-> RowLines(tables[k])])
        \o <<"\n">>

\* a chunk flushed as soon as the limit is reached
SplitStep_flushAtLimit(st, entry_text, max_chars) ==
    IF Len(st.current_chunk) + Len(entry_text) >= max_chars
    THEN [chunks |-> Append(st.chunks, st.current_chunk),
          current_chunk |-> entry_text]
    ELSE [chunks |-> st.chunks,
          current_chunk |-> st.current_chunk \o entry_text]

\* one iteration of the loop of split_prompt on st = [chunks, current_chunk]
SplitStep(st, entry_text, max_chars) ==
    IF Len(st.current_chunk) + Len(entry_text) > max_chars
    THEN [chunks |-> Append(st.chunks, st.current_chunk),
          current_chunk |-> entry_text]
    ELSE [chunks |-> st.chunks,
          current_chunk |-> st.current_chunk \o entry_text]

RECURSIVE SplitLoop(_, _, _)
SplitLoop(data, st, max_chars) ==
    IF data = <<>> THEN st
    ELSE SplitLoop(Tail(data), SplitStep(st, EntryText(Head(data)), max_chars),
                   max_chars)

\* entry['text'] of a record without that key raises KeyError, uncaught
split_prompt(data, max_chars) ==
    IF \E k \in 1..Len(data) : ~Has(data[k], "text")
    THEN Raise("KeyError")
    ELSE LET st == SplitLoop(data, [chunks |-> <<>>, current_chunk |-> <<>>],
                             max_chars)
         IN  List(IF st.current_chunk # <<>>
                  THEN Append(st.chunks, st.current_chunk) ELSE st.chunks)

HeadersText ==
    <<"H", "e", "a", "d", "e", "r", "s", ":", " ">>
RowsText ==
    <<"\n", "R", "o", "w", "s", ":", "\n">>

\* f"Headers: {headers}\nRows:\n{rows}\n" for one table with a header row
TableBlock(table) ==
    HeadersText \o Join(CommaSpace, table[1]) \o RowsText
    \o Join(<<"\n">>, [i \in 1..(Len(table) - 1) |->
                          Join(CommaSpace, table[i + 1])])
    \o <<"\n">>

TablesBlock(tables) == Concat([k \in 1..Len(tables) |-> TableBlock(tables[k])])

\* table[0] of a table without rows raises IndexError
HasZeroRowTable(tables) == \E k \in 1..Len(tables) : tables[k] = <<>>

PreambleA ==
    <<"A", "n", "a", "l", "y", "z", "e", " ", "t", "h", "e", " ", "f", "o",
      "l", "l", "o", "w", "i", "n", "g", " ", "e", "m", "a", "i", "l", " ",
      "d", "e", "l", "i", "v", "e", "r", "a", "b", "i", "l", "i", "t", "y",
      " ", "d", "a", "t", "a", " ", "a", "n", "d", " ", "p", "r", "o", "v",
      "i", "d", "e", " ", "a", " ", "d", "e", "t", "a", "i", "l", "e", "d",
      ",", " ", "n", "a", "t", "u", "r", "a", "l", "-", "l", "a", "n", "g",
      "u", "a", "g", "e", " ", "s", "u", "m", "m", "a", "r", "y", ":", "\n",
      "\n">>
ClosingA ==
    <<"B", "a", "s", "e", "d", " ", "o", "n", " ", "t", "h", "e", " ", "d",
      "a", "t", "a", " ", "p", "r", "o", "v", "i", "d", "e", "d", ",", " ",
      "g", "e", "n", "e", "r", "a", "t", "e", " ", "a", " ", "d", "e", "t",
      "a", "i", "l", "e", "d", " ", "a", "n", "d", " ", "e", "a", "s", "y",
      "-", "t", "o", "-", "r", "e", "a", "d", " ", "s", "u", "m", "m", "a",
      "r", "y", ".", " ", "E", "x", "p", "l", "a", "i", "n", " ", "d", "e",
      "l", "i", "v", "e", "r", "a", "b", "i", "l", "i", "t", "y", " ", "p",
      "e", "r", "f", "o", "r", "m", "a", "n", "c", "e", ",", " ", "e", "n",
      "g", "a", "g", "e", "m", "e", "n", "t", " ", "m", "e", "t", "r", "i",
      "c", "s", ",", " ", "a", "n", "d", " ", "p", "a", "t", "t", "e", "r",
      "n", "s", " ", "i", "n", " ", "n", "a", "t", "u", "r", "a", "l", " ",
      "l", "a", "n", "g", "u", "a", "g", "e", " ", "w", "i", "t", "h", "o",
      "u", "t", " ", "r", "e", "p", "e", "a", "t", "i", "n", "g", " ", "t",
      "h", "e", " ", "t", "a", "b", "u", "l", "a", "r", " ", "d", "a", "t",
      "a", " ", "v", "e", "r", "b", "a", "t", "i", "m", ".">>
TabularDataText ==
    <<"H", "e", "r", "e", " ", "i", "s", " ", "t", "h", "e", " ", "t", "a",
      "b", "u", "l", "a", "r", " ", "d", "a", "t", "a", ":", "\n">>

\* Variant A: per-entry text of generate_prompt
PromptEntryA(entry) ==
    SlideTitleText \o entry.text \o <<"\n">>
    \o (IF Has(entry, "tables") /\ entry.tables # <<>>
        THEN TabularDataText \o TablesBlock(entry.tables) ELSE <<>>)
    \o <<"\n">>

EntryRaisesA(entry) ==
    \/ ~Has(entry, "text")
    \/ Has(entry, "tables") /\ HasZeroRowTable(entry.tables)

\* Variant A generate_prompt: every failure is re-raised as RuntimeError
generate_prompt_bedrock(data) ==
    IF \E k \in 1..Len(data) : EntryRaisesA(data[k])
    THEN Raise("RuntimeError")
    ELSE Str(PreambleA
             \o Concat([k \in 1..Len(data) |-> PromptEntryA(data[k])])
             \o ClosingA)

PreambleB ==
    <<"Y", "o", "u", " ", "a", "r", "e", " ", "a", " ", "r", "e", "p", "o",
      "r", "t", " ", "s", "u", "m", "m", "a", "r", "i", "z", "e", "r", ".",
      " ", "P", "l", "e", "a", "s", "e", " ", "p", "r", "o", "v", "i", "d",
      "e", " ", "a", " ", "d", "e", "t", "a", "i", "l", "e", "d", " ", "a",
      "n", "d", " ", "e", "a", "s", "y", "-", "t", "o", "-", "r", "e", "a",
      "d", " ", "s", "u", "m", "m", "a", "r", "y", " ", "o", "f", " ", "t",
      "h", "e", " ", "f", "o", "l", "l", "o", "w", "i", "n", "g", " ", "p",
      "r", "e", "s", "e", "n", "t", "a", "t", "i", "o", "n", ":", "\n", "\n">>
ClosingB ==
    <<"S", "u", "m", "m", "a", "r", "i", "z", "e", " ", "t", "h", "e", " ",
      "k", "e", "y", " ", "p", "o", "i", "n", "t", "s", " ", "f", "r", "o",
      "m", " ", "a", "l", "l", " ", "s", "l", "i", "d", "e", "s", " ", "i",
      "n", " ", "a", " ", "c", "o", "h", "e", "r", "e", "n", "t", " ", "a",
      "n", "d", " ", "n", "a", "t", "u", "r", "a", "l", "-", "l", "a", "n",
      "g", "u", "a", "g", "e", " ", "m", "a", "n", "n", "e", "r", ".", " ",
      "P", "r", "o", "v", "i", "d", "e", " ", "a", "c", "t", "i", "o", "n",
      "a", "b", "l", "e", " ", "i", "n", "s", "i", "g", "h", "t", "s", " ",
      "a", "n", "d", " ", "h", "i", "g", "h", "l", "i", "g", "h", "t", " ",
      "i", "m", "p", "o", "r", "t", "a", "n", "t", " ", "t", "r", "e", "n",
      "d", "s", " ", "o", "r", " ", "p", "a", "t", "t", "e", "r", "n", "s",
      ".">>
SlideContentText ==
    <<"S", "l", "i", "d", "e", " ", "C", "o", "n", "t", "e", "n", "t", ":",
      " ">>
SlideTablesText ==
    <<"S", "l", "i", "d", "e", " ", "T", "a", "b", "l", "e", "s", ":", "\n">>

\* Variant B: per-slide text of generate_prompt
PromptEntryB(slide) ==
    SlideTitleText \o slide.title \o <<"\n">>
    \o (IF slide.content # <<>>
        THEN SlideContentText \o slide.content \o <<"\n">> ELSE <<>>)
    \o (IF slide.tables # <<>>
        THEN SlideTablesText \o TablesBlock(slide.tables) ELSE <<>>)
    \o <<"\n">>

EntryRaisesB(slide) ==
    \/ ~Has(slide, "title")
    \/ ~Has(slide, "content")
    \/ ~Has(slide, "tables")
    \/ HasZeroRowTable(slide.tables)

\* the failure re-raised as in Variant A
generate_prompt_openai_reraises(slide_data_in) ==
    IF \E k \in 1..Len(slide_data_in) : EntryRaisesB(slide_data_in[k])
    THEN Raise("RuntimeError")
    ELSE Str(PreambleB
             \o Concat([k \in 1..Len(slide_data_in) |->
                           PromptEntryB(slide_data_in[k])])
             \o ClosingB)

\* Variant B generate_prompt: every failure is logged and None returned
generate_prompt_openai(slide_data_in) ==
    IF \E k \in 1..Len(slide_data_in) : EntryRaisesB(slide_data_in[k])
    THEN None
    ELSE Str(PreambleB
             \o Concat([k \in 1..Len(slide_data_in) |->
                           PromptEntryB(slide_data_in[k])])
             \o ClosingB)

----------------------------------------------------------------------------
(* The collaborators of the summarization entry points: the report         *)
(* directory, the presentation file in it, the boto3 session and the       *)
(* hosted model.  They are fixed when an entry point is called.            *)

PptxSuffix == <<".", "p", "p", "t", "x">>
APptx == <<"a", ".", "p", "p", "t", "x">>
BTxt == <<"b", ".", "t", "x", "t">>
CPptx == <<"c", ".", "p", "p", "t", "x">>

\* os.listdir of the report directory; exists = FALSE: no such directory
Listings ==
    {[exists |-> FALSE, names |-> <<>>]}
    \cup {[exists |-> TRUE, names |-> n] :
             n \in {<<>>, <<BTxt>>, <<BTxt, APptx>>, <<CPptx, APptx>>}}

\* the file found: not a readable presentation, or a presentation
Decks ==
    {[valid |-> FALSE, slides |-> <<>>]}
    \cup {[valid |-> TRUE, slides |-> p] : p \in SeqUpTo(Slides, MaxDeckSlides)}

\* the hosted model: ok = FALSE: the request fails; texts: the generated
\* texts of the reply (Variant A: results[*].outputText, Variant B:
\* choices[*].message.content)
Providers ==
    {[ok |-> FALSE, texts |-> <<>>]}
    \cup {[ok |-> TRUE, texts |-> t] :
             t \in {<<>>, <<<<>>>>, <<<<"o", "k">>>>,
                    <<<<"o", "k">>, <<"n", "o">>>>}}

\* boto3.Session().client(...) fails -> RuntimeError
initialize_bedrock_client(session) ==
    IF session THEN Str(<<"c", "l", "i", "e", "n", "t">>)
    ELSE Raise("RuntimeError")

\* Variant A: every failure of the request is re-raised as RuntimeError
query_bedrock_model(provider) ==
    IF ~provider.ok THEN Raise("RuntimeError") ELSE List(provider.texts)

\* Variant B: response['choices'][0]['message']['content'], f"{summary}";
\* a failed request or a reply without choices is logged and None returned
summarize_with_azure_openai(provider) ==
    IF ~provider.ok \/ provider.texts = <<>> THEN None
    ELSE Str(provider.texts[1])

\* next((join(dir, report_id, file) for file in os.listdir(...)
\*       if file.endswith(".pptx")), None)
RECURSIVE FirstPptx(_)
FirstPptx(names) ==
    IF names = <<>> THEN None
    ELSE IF EndsWith(Head(names), PptxSuffix) THEN Str(Head(names))
    ELSE FirstPptx(Tail(names))

\* the first file taken whatever its suffix
LocateFile_anySuffix(files) ==
    IF ~files.exists THEN Raise("FileNotFoundError")
    ELSE IF files.names = <<>> THEN None
    ELSE Str(Head(files.names))

LocateFile(files) ==
    IF ~files.exists THEN Raise("FileNotFoundError") ELSE FirstPptx(files.names)

\* the value of file_to_get_summarization when the handler or the test
\* "if not file_to_get_summarization" is reached: a path, or nothing
Located(found) == IF found.kind = "str" THEN found ELSE None

\* the test "if not slide_data" left out
Process_noEmptyTest(deck) ==
    IF ~deck.valid THEN [next |-> "done", slide_data |-> None]
    ELSE [next |-> "prompt", slide_data |-> preprocess_ppt(deck.slides)]

\* PPTDataPreprocessing(file).preprocess_ppt() and the test on its result:
\* where the entry point goes next, and slide_data
Process(deck) ==
    IF ~deck.valid THEN [next |-> "done", slide_data |-> None]
    ELSE LET data == preprocess_ppt(deck.slides)
         IN  IF data.val = <<>> THEN [next |-> "done", slide_data |-> data]
             ELSE [next |-> "prompt", slide_data |-> data]

\* Variant A: initialize_bedrock_client(), then generate_prompt(slide_data)
PromptA(session, data) ==
    IF initialize_bedrock_client(session).kind = "raise"
    THEN Raise("RuntimeError")
    ELSE generate_prompt_bedrock(data)

\* Variant B: generate_prompt(slide_data), then prompt[:100] for the log
PromptB(data) ==
    LET p == generate_prompt_openai(data)
    IN  IF p.kind = "None" THEN Raise("TypeError") ELSE p

\* Variant A after the query: the response is logged, the function ends
\* without a return statement; the except clause only logs
ResultA(response) == None

\* Variant B after the query: return summary if it is truthy, else None
ResultB(summary) ==
    IF summary.kind = "str" /\ summary.val # <<>> THEN summary ELSE None

EntryPoints == {"summarize_with_bedrock_titan", "ppt_summarization"}

Init ==
    /\ pc = "idle"
    /\ op = "none"
    /\ arg = <<>>
    /\ ret = None
    /\ calls = 0
    /\ file_to_get_summarization = None
    /\ slide_data = None
    /\ prompt = None

Call_extract_tables_from_slide ==
    /\ pc = "idle"
    /\ \E slide \in Slides :
         /\ arg' = [slide |-> slide]
         /\ ret' = extract_tables_from_slide(slide)
    /\ op' = "extract_tables_from_slide"
    /\ pc' = "done"
    /\ UNCHANGED <<calls, file_to_get_summarization, slide_data, prompt>>

Call_extract_content_from_ppt ==
    /\ pc = "idle"
    /\ \E presentation \in Presentations :
         /\ arg' = [presentation |-> presentation]
         /\ ret' = extract_content_from_ppt(presentation)
    /\ op' = "extract_content_from_ppt"
    /\ pc' = "done"
    /\ UNCHANGED <<calls, file_to_get_summarization, slide_data, prompt>>

Call_preprocess_ppt ==
    /\ pc = "idle"
    /\ \E presentation \in Presentations :
         /\ arg' = [presentation |-> presentation]
         /\ ret' = preprocess_ppt(presentation)
    /\ op' = "preprocess_ppt"
    /\ pc' = "done"
    /\ UNCHANGED <<calls, file_to_get_summarization, slide_data, prompt>>

Call_split_prompt ==
    /\ pc = "idle"
    /\ \E data \in TextInputs, max_chars \in MaxCharsSet :
         /\ arg' = [data |-> data, max_chars |-> max_chars]
         /\ ret' = split_prompt(data, max_chars)
    /\ op' = "split_prompt"
    /\ pc' = "done"
    /\ UNCHANGED <<calls, file_to_get_summarization, slide_data, prompt>>

Call_generate_prompt_bedrock ==
    /\ pc = "idle"
    /\ \E data \in TextInputs :
         /\ arg' = [data |-> data]
         /\ ret' = generate_prompt_bedrock(data)
    /\ op' = "generate_prompt_bedrock"
    /\ pc' = "done"
    /\ UNCHANGED <<calls, file_to_get_summarization, slide_data, prompt>>

Call_generate_prompt_openai ==
    /\ pc = "idle"
    /\ \E data \in TitleInputs :
         /\ arg' = [data |-> data]
         /\ ret' = generate_prompt_openai(data)
    /\ op' = "generate_prompt_openai"
    /\ pc' = "done"
    /\ UNCHANGED <<calls, file_to_get_summarization, slide_data, prompt>>

Call_initialize_bedrock_client ==
    /\ pc = "idle"
    /\ \E session \in BOOLEAN :
         /\ arg' = [session |-> session]
         /\ ret' = initialize_bedrock_client(session)
    /\ op' = "initialize_bedrock_client"
    /\ pc' = "done"
    /\ UNCHANGED <<calls, file_to_get_summarization, slide_data, prompt>>

Call_query_bedrock_model ==
    /\ pc = "idle"
    /\ \E provider \in Providers :
         /\ arg' = [provider |-> provider]
         /\ ret' = query_bedrock_model(provider)
    /\ op' = "query_bedrock_model"
    /\ pc' = "done"
    /\ calls' = calls + 1
    /\ UNCHANGED <<file_to_get_summarization, slide_data, prompt>>

Call_summarize_with_azure_openai ==
    /\ pc = "idle"
    /\ \E provider \in Providers :
         /\ arg' = [provider |-> provider]
         /\ ret' = summarize_with_azure_openai(provider)
    /\ op' = "summarize_with_azure_openai"
    /\ pc' = "done"
    /\ calls' = calls + 1
    /\ UNCHANGED <<file_to_get_summarization, slide_data, prompt>>

\* Variant A is called and locates the presentation file; a missing
\* directory raises inside the try block and the handler only logs
Start_summarize_with_bedrock_titan ==
    /\ pc = "idle"
    /\ \E files \in Listings, deck \in Decks, provider \in Providers,
          session \in BOOLEAN :
         /\ arg' = [files |-> files, deck |-> deck, provider |-> provider,
                    session |-> session]
         /\ file_to_get_summarization' = Located(LocateFile(files))
    /\ op' = "summarize_with_bedrock_titan"
    /\ pc' = IF file_to_get_summarization'.kind = "str" THEN "process"
             ELSE "done"
    /\ ret' = None
    /\ UNCHANGED <<calls, slide_data, prompt>>

\* Variant B is called and locates the presentation file; it opens no
\* boto3 session
Start_ppt_summarization ==
    /\ pc = "idle"
    /\ \E files \in Listings, deck \in Decks, provider \in Providers :
         /\ arg' = [files |-> files, deck |-> deck, provider |-> provider,
                    session |-> TRUE]
         /\ file_to_get_summarization' = Located(LocateFile(files))
    /\ op' = "ppt_summarization"
    /\ pc' = IF file_to_get_summarization'.kind = "str" THEN "process"
             ELSE "done"
    /\ ret' = None
    /\ UNCHANGED <<calls, slide_data, prompt>>

\* the file is opened and preprocessed
ProcessFile ==
    /\ pc = "process"
    /\ LET r == Process(arg.deck)
       IN  /\ pc' = r.next
           /\ slide_data' = r.slide_data
    /\ UNCHANGED <<op, arg, ret, calls, file_to_get_summarization, prompt>>

\* the prompt is built; any exception ends the call in the handler
BuildPrompt ==
    /\ pc = "prompt"
    /\ LET p == IF op = "summarize_with_bedrock_titan"
                THEN PromptA(arg.session, slide_data.val)
                ELSE PromptB(slide_data.val)
       IN  IF p.kind = "str"
           THEN /\ prompt' = p
                /\ pc' = "query"
           ELSE /\ prompt' = None
                /\ pc' = "done"
    /\ UNCHANGED <<op, arg, ret, calls, file_to_get_summarization, slide_data>>

\* the one provider call of the invocation, and the value returned
Query ==
    /\ pc = "query"
    /\ calls' = calls + 1
    /\ ret' = IF op = "summarize_with_bedrock_titan"
              THEN ResultA(query_bedrock_model(arg.provider))
              ELSE ResultB(summarize_with_azure_openai(arg.provider))
    /\ pc' = "done"
    /\ UNCHANGED <<op, arg, file_to_get_summarization, slide_data, prompt>>

\* control is back with the caller
Return ==
    /\ pc = "done"
    /\ pc' = "idle"
    /\ op' = "none"
    /\ arg' = <<>>
    /\ ret' = None
    /\ calls' = 0
    /\ file_to_get_summarization' = None
    /\ slide_data' = None
    /\ prompt' = None

Next ==
    \/ Call_query_bedrock_model
    \/ Call_generate_prompt_bedrock
    \/ Call_split_prompt
    \/ Call_extract_tables_from_slide
    \/ Call_extract_content_from_ppt
    \/ Call_preprocess_ppt
    \/ Call_generate_prompt_openai
    \/ Call_initialize_bedrock_client
    \/ Call_summarize_with_azure_openai
    \/ Start_summarize_with_bedrock_titan
    \/ Start_ppt_summarization
    \/ ProcessFile
    \/ BuildPrompt
    \/ Query
    \/ Return

Spec == Init /\ [][Next]_vars

----------------------------------------------------------------------------
(* Properties of the slide extractor *)

Done(name) == pc = "done" /\ op = name

IsTable(shape) == shape.kind = "table"
IsText(shape) == shape.kind = "text"
HasRows(shape) == shape.kind = "table" /\ Len(shape.rows) >= 1
Unbroken(slide) == \A i \in 1..Len(slide) : ~WalkRaises(slide[i])

\* C8: extract_tables_from_slide returns, in shape order, one table per
\* table shape that has at least one row: its header is row 0 of the shape
\* and its data rows are the N-1 rows after it; a table shape with no row
\* at all gives no entry.
C8_TablesHeaderAndBody ==
    (Done("extract_tables_from_slide") /\ Unbroken(arg.slide)) =>
        LET shapes == SelectSeq(arg.slide, HasRows)
        IN  /\ ret.kind = "list"
            /\ Len(ret.val) = Len(shapes)
            /\ \A k \in 1..Len(shapes) :
                 LET n == Len(shapes[k].rows)
                 IN  /\ ret.val[k].columns = shapes[k].rows[1]
                     /\ Len(ret.val[k].rows) = n - 1
                     /\ \A i \in 1..(n - 1) :
                          ret.val[k].rows[i] = shapes[k].rows[i + 1]

\* a slide with a table without rows and a table of 2 rows: one entry, with
\* one data row
C8_Witness ==
    /\ Done("extract_tables_from_slide")
    /\ ret.kind = "list"
    /\ \E i \in 1..Len(arg.slide) :
         IsTable(arg.slide[i]) /\ arg.slide[i].rows = <<>>
    /\ Len(ret.val) = 1
    /\ Len(ret.val[1].rows) = 1

StrippedTexts(slide) ==
    LET shapes == SelectSeq(slide, IsText)
    IN  [i \in 1..Len(shapes) |-> Strip(shapes[i].text)]

StrippedTables(slide) ==
    LET shapes == SelectSeq(slide, IsTable)
    IN  [k \in 1..Len(shapes) |->
            [i \in 1..Len(shapes[k].rows) |->
                [j \in 1..Len(shapes[k].rows[i]) |->
                    Strip(shapes[k].rows[i][j])]]]

HasTextOrTable(slide) ==
    \E i \in 1..Len(slide) : IsText(slide[i]) \/ IsTable(slide[i])

Contributes(slide) ==
    \E i \in 1..Len(slide) : IsText(slide[i]) \/ HasRows(slide[i])

\* the positions of the contributing slides, in increasing order
RECURSIVE Positions(_, _)
Positions(presentation, k) ==
    IF k > Len(presentation) THEN <<>>
    ELSE (IF Contributes(presentation[k]) THEN <<k>> ELSE <<>>)
         \o Positions(presentation, k + 1)

\* the flat string whose i-th block is the content of the i-th contributing
\* slide under the number numbers[i]
Numbered(presentation, numbers) ==
    LET at == Positions(presentation, 1)
    IN  Join(<<"\n", "\n">>,
             [i \in 1..Len(at) |->
                 SlidePrefix \o Decimal(numbers[i]) \o <<":", "\n">>
                 \o Join(<<"\n">>, SlideContent(presentation[at[i]]))])

\* C6 as stated: the numbers of the emitted blocks are 1, 2, ..., m, also
\* when slides are skipped.
C6_ContiguousNumbers ==
    (Done("extract_content_from_ppt") /\ ret.kind = "str") =>
        ret.val = Numbered(arg.presentation,
                      [i \in 1..Len(Positions(arg.presentation, 1)) |-> i])

\* C6 amended: the number of each emitted block is the 1-based position of
\* its slide in the presentation, so the numbers increase and leave out the
\* numbers of the skipped slides.
C6_PositionNumbers ==
    (Done("extract_content_from_ppt") /\ ret.kind = "str") =>
        ret.val = Numbered(arg.presentation, Positions(arg.presentation, 1))

\* a skipped slide followed by a slide that contributes a block
C6_Witness ==
    /\ Done("extract_content_from_ppt")
    /\ ret.kind = "str"
    /\ Len(arg.presentation) = 2
    /\ ~Contributes(arg.presentation[1])
    /\ Contributes(arg.presentation[2])
    /\ ret.val # <<>>

----------------------------------------------------------------------------
(* Properties of split_prompt *)

\* the serialized entries of the input of split_prompt
Serialized == [k \in 1..Len(arg.data) |-> EntryText(arg.data[k])]

SplitReturned == Done("split_prompt") /\ ret.kind = "list"

\* C5: two entries of serialized lengths a and b, each at most max_chars:
\* with a + b > max_chars the result is the two entries as two chunks, else
\* it is one chunk holding entry 1 followed by entry 2.
C5_TwoEntries ==
    (/\ SplitReturned
     /\ Len(arg.data) = 2
     /\ Len(Serialized[1]) <= arg.max_chars
     /\ Len(Serialized[2]) <= arg.max_chars) =>
        IF Len(Serialized[1]) + Len(Serialized[2]) > arg.max_chars
        THEN ret.val = <<Serialized[1], Serialized[2]>>
        ELSE ret.val = <<Serialized[1] \o Serialized[2]>>

\* max_chars = 50 with entries of 30 and 40 characters: two chunks
C5_Witness ==
    /\ SplitReturned
    /\ Len(arg.data) = 2
    /\ arg.max_chars = 50
    /\ Len(Serialized[1]) = 30
    /\ Len(Serialized[2]) = 40
    /\ Len(ret.val) = 2

RECURSIVE Sum(_)
Sum(sizes) == IF sizes = <<>> THEN 0 ELSE Head(sizes) + Sum(Tail(sizes))

\* the entries of chunk i when the chunks hold sizes[1], sizes[2], ...
\* consecutive entries
Group(sizes, i) ==
    LET before == Sum(SubSeq(sizes, 1, i - 1))
    IN  SubSeq(Serialized, before + 1, before + sizes[i])

\* C9: every chunk is the concatenation of one or more consecutive
\* serialized entries, and a chunk longer than max_chars consists of
\* exactly one entry.
C9_ChunksAreBoundedGroups ==
    SplitReturned =>
        \E sizes \in [1..Len(ret.val) -> 1..Max({1, Len(arg.data)})] :
            /\ Sum(sizes) = Len(arg.data)
            /\ \A i \in 1..Len(ret.val) :
                 /\ ret.val[i] = Concat(Group(sizes, i))
                 /\ Len(ret.val[i]) > arg.max_chars => sizes[i] = 1

\* C10: no chunk is the empty string, and the chunks concatenated in order
\* equal the serialized entries concatenated in order.
C10_NoEmptyChunk ==
    SplitReturned =>
        /\ \A i \in 1..Len(ret.val) : ret.val[i] # <<>>
        /\ Concat(ret.val) = Concat(Serialized)

----------------------------------------------------------------------------
(* Properties of the summarization entry points *)

EntryDone == pc = "done" /\ op \in EntryPoints

HasPptx(files) ==
    /\ files.exists
    /\ \E i \in 1..Len(files.names) : EndsWith(files.names[i], PptxSuffix)

\* the provider answers with generated text
Generates(provider) ==
    /\ provider.ok
    /\ provider.texts # <<>>
    /\ provider.texts[1] # <<>>

\* C1: with a .pptx file in the report directory, a non-empty record list
\* from preprocess_ppt and a provider that answers with generated text, the
\* entry point returns the generated text: Variant A the list of output
\* texts, Variant B the content of the first completion.
C1_ReturnsSummary ==
    (/\ EntryDone
     /\ HasPptx(arg.files)
     /\ slide_data.kind = "list"
     /\ slide_data.val # <<>>
     /\ arg.session
     /\ Generates(arg.provider)) =>
        IF op = "summarize_with_bedrock_titan"
        THEN ret.kind = "list" /\ ret.val = arg.provider.texts
        ELSE ret.kind = "str" /\ ret.val = arg.provider.texts[1]

\* C2: when preprocess_ppt returns an empty sequence the entry point
\* returns None and makes no provider call at any point of the invocation.
C2_EmptyExtractionShortCircuits ==
    (/\ op \in EntryPoints
     /\ slide_data.kind = "list"
     /\ slide_data.val = <<>>) =>
        /\ calls = 0
        /\ pc = "done"
        /\ ret.kind = "None"

\* a readable presentation of one slide that yields no record, and a
\* provider that would have answered
C2_Witness ==
    /\ EntryDone
    /\ slide_data.kind = "list"
    /\ slide_data.val = <<>>
    /\ Len(arg.deck.slides) = 1
    /\ Generates(arg.provider)
    /\ calls = 0

\* C3: with no file ending in .pptx in the report directory, or no such
\* directory, the entry point returns None and raises nothing.
C3_NoPptxReturnsNone ==
    (EntryDone /\ ~HasPptx(arg.files)) => ret.kind = "None"

\* the report directory does not exist
C3_Witness ==
    /\ EntryDone
    /\ ~arg.files.exists
    /\ ret.kind = "None"
    /\ calls = 0

\* C4 as stated: no public operation lets an exception out.
C4_NoOperationRaises == pc = "done" => ret.kind # "raise"

\* the operations written to catch every failure
CatchingOps ==
    EntryPoints
    \cup {"preprocess_ppt", "generate_prompt_openai",
          "summarize_with_azure_openai"}

\* C4 amended: no exception leaves either summarization entry point,
\* preprocess_ppt, Variant B's generate_prompt or
\* summarize_with_azure_openai: each returns a result or None / [] on every
\* input.  (Variant A's generate_prompt and query_bedrock_model re-raise
\* failures as RuntimeError; the other extractors and split_prompt have no
\* handler.)
C4_CatchingOpsAreTotal ==
    (pc = "done" /\ op \in CatchingOps) => ret.kind \in {"None", "str", "list"}

\* a provider failure inside Variant B's entry point ends in None
C4_Witness ==
    /\ Done("ppt_summarization")
    /\ calls = 1
    /\ ~arg.provider.ok
    /\ ret.kind = "None"

====
